---- MODULE Spec2Model ----
(***************************************************************************)
(* Model of backend/server.js: an HTTP JSON API over three SQLite tables   *)
(* (users, boards, notes).  Every handler is a chain of awaited            *)
(* statements; one action of the model is one executed statement together  *)
(* with the handler code that runs before it is issued and after its       *)
(* callback (up to the next statement or the response).  Statements of     *)
(* different requests interleave freely.                                   *)
(*                                                                         *)
(* uuidv4() is modelled by a counter (ids are fresh and never reused),     *)
(* formatDate() by a clock with one-second resolution.  A timestamp is     *)
(* read where the code calls formatDate(): before the statement that       *)
(* carries it is issued, hence in the step of the statement before it.     *)
(*                                                                         *)
(* resp holds the response a step has sent; Flush takes it away before     *)
(* the next step of any handler, so a state with a response is the state   *)
(* of the tables at the moment that response was sent.                     *)
(*                                                                         *)
(* The UPDATE NOTE handler (lines 260-286) is no action: Route shows that  *)
(* no request reaches it, the UPDATE BOARD test matches every PUT under    *)
(* /boards/ first.                                                         *)
(*                                                                         *)
(* The handlers take a request once its body is complete; the arrival of   *)
(* a body in chunks (parseJSONBody) is modelled for POST /register, in     *)
(* SpecBody.  The store answers every statement with its result; a store   *)
(* that may reject a statement (run's `if (err) return reject(err)`) is    *)
(* StatementFails, in SpecFault and SpecLive.                              *)
(***************************************************************************)
EXTENDS Integers, Sequences, FiniteSets, TLC

(* ------------------------------- bounds -------------------------------- *)
MaxIds == 3          \* number of uuids drawn in one run
MaxTime == 1         \* seconds the clock may advance
MaxInFlight == 2     \* requests being handled at the same time
MaxRaw == 2          \* chunks a body may have (the 1e6 characters, scaled)

(* --------------------------- values and inputs ------------------------- *)
Undef == "undefined"                 \* JS undefined / null: a missing field
Falsy(v) == v \in {Undef, ""}        \* what `!v` accepts for strings

Columns == {"Start", "Stop", "Continue"}

Emails == {"a@x", "b@x"}
Passwords == {"p", "q"}
Titles == {"T"}
Texts == {"t"}
ColumnInputs == Columns \cup {"Foo"}

uuid(n) == ToString(n)
UnknownId == uuid(0)                 \* an id no row ever has

EmptyObject ==
  [kind |-> "obj", email |-> Undef, password |-> Undef, userId |-> Undef,
   title |-> Undef, columnName |-> Undef, text |-> Undef]
BadBody == [EmptyObject EXCEPT !.kind = "bad"]      \* not well-formed JSON
NullBody == [EmptyObject EXCEPT !.kind = "null"]    \* the JSON text null
ArrayBody == [EmptyObject EXCEPT !.kind = "array"]  \* the JSON text []
\* well-formed bodies without any field: the empty body (parsed as {}) and []
Fieldless == {EmptyObject, ArrayBody}

AuthBodies ==
  {[EmptyObject EXCEPT !.email = e, !.password = p] :
      e \in Emails \cup {Undef}, p \in Passwords \cup {""}}
    \cup Fieldless
BoardBodies(ids) ==
  {[EmptyObject EXCEPT !.userId = u, !.title = t] :
      u \in ids \cup {Undef}, t \in Titles \cup {Undef}}
    \cup Fieldless
TitleBodies ==
  {[EmptyObject EXCEPT !.title = t] : t \in Titles \cup {Undef}}
    \cup Fieldless
NoteBodies ==
  {[EmptyObject EXCEPT !.columnName = c, !.text = t] :
      c \in ColumnInputs \cup {Undef}, t \in Texts}
    \cup {[EmptyObject EXCEPT !.columnName = c] : c \in Columns}
    \cup Fieldless
Faults == {BadBody, NullBody}
SeedBody == [EmptyObject EXCEPT !.email = "a@x", !.password = "p"]
\* what a client sends with PUT: a title for a board, a column for a note
PutBodies(path) ==
  IF Len(path) = 4 THEN NoteBodies \cup Faults ELSE TitleBodies \cup Faults

Methods == {"GET", "POST", "PUT", "DELETE", "OPTIONS"}

\* pathname.split("/") without the leading empty segment
BoardPaths(ids) == {<<"boards", b>> : b \in ids}
NotesPaths(ids) == {<<"boards", b, "notes">> : b \in ids}
NotePaths(ids) == {<<"boards", b, "notes", n>> : b \in ids, n \in ids}
Paths(ids) ==
  {<<"register">>, <<"login">>, <<"boards">>, <<"other">>}
    \cup BoardPaths(ids) \cup NotesPaths(ids) \cup NotePaths(ids)

Request(m, p, q, body) == [method |-> m, path |-> p, query |-> q, body |-> body]

(* -------------------------------- state -------------------------------- *)
VARIABLES
  users,      \* rows of table users
  boards,     \* rows of table boards
  notes,      \* rows of table notes
  nextId,     \* the next uuid
  now,        \* the clock formatDate() reads
  inflight,   \* the suspended handlers, by slot
  resp,       \* the response the last step sent, if it sent one
  limit       \* how many requests the clients keep open at a time

vars == <<users, boards, notes, nextId, now, inflight, resp, limit>>

Idle == [pc |-> "idle"]
NoResponse == [req |-> Request("NONE", <<"none">>, Undef, EmptyObject),
               status |-> 0, body |-> [none |-> TRUE]]

Init ==
  /\ users = {}
  /\ boards = {}
  /\ notes = {}
  /\ nextId = 1
  /\ now = 0
  /\ inflight = [s \in 1..MaxInFlight |-> Idle]
  /\ resp = NoResponse
  /\ limit = MaxInFlight

\* the same server behind clients that wait for each response
InitSeq ==
  /\ users = {}
  /\ boards = {}
  /\ notes = {}
  /\ nextId = 1
  /\ now = 0
  /\ inflight = [s \in 1..MaxInFlight |-> Idle]
  /\ resp = NoResponse
  /\ limit = 1

(* ------------------------------- helpers ------------------------------- *)
formatDate == now

\* sendJSON as it would be if it wrote nothing
sendJSON_Nothing(req, status, payload) == resp' = NoResponse
\* sendJSON(res, status, payload)
sendJSON(req, status, payload) ==
  resp' = [req |-> req, status |-> status, body |-> payload]

\* a step of a handler that sends nothing
NoSend == resp' = NoResponse

Error(msg) == [error |-> msg]

\* parseJSONBody: rejects on text that is not JSON, maps the empty body to {}
ParseRejects(body) == body.kind = "bad"
\* `const {...} = value` throws a TypeError on null
DestructureThrows(body) == body.kind = "null"
BodyFault(body) == ParseRejects(body) \/ DestructureThrows(body)

\* ids a client can name: those the server has handed out, or a made-up one
KnownIds == {uuid(n) : n \in 0..(nextId - 1)}

FreeSlots == {s \in 1..MaxInFlight : inflight[s] = Idle}
Busy == {s \in 1..MaxInFlight : inflight[s] # Idle}
\* the handlers run while no response is waiting to leave the server
Ready == resp = NoResponse
\* a new request is taken while fewer than `limit` are being handled
Admit == Ready /\ Cardinality(Busy) < limit
\* ids promised to the suspended handlers that draw theirs on resuming
Reserved ==
  Cardinality({s \in 1..MaxInFlight :
                 inflight[s].pc \in {"parse_body", "register_insert"}})
\* a request that needs a uuid is taken while the run has one left for it
IdsLeft == nextId + Reserved <= MaxIds
FirstFree == CHOOSE s \in FreeSlots : \A t \in FreeSlots : s <= t
Suspend(ctx) == inflight' = [inflight EXCEPT ![FirstFree] = ctx]
Resume(s, ctx) == inflight' = [inflight EXCEPT ![s] = ctx]
Finish(s) == inflight' = [inflight EXCEPT ![s] = Idle]

\* the if-chain of the createServer callback: the first matching test wins
Route(method, path) ==
  IF method = "OPTIONS" THEN "OPTIONS"
  ELSE IF path = <<"register">> /\ method = "POST" THEN "REGISTER"
  ELSE IF path = <<"login">> /\ method = "POST" THEN "LOGIN"
  ELSE IF path = <<"boards">> /\ method = "GET" THEN "GET_BOARDS"
  ELSE IF path = <<"boards">> /\ method = "POST" THEN "CREATE_BOARD"
  ELSE IF Len(path) >= 2 /\ path[1] = "boards" /\ method = "PUT"
    THEN "UPDATE_BOARD"
  ELSE IF Len(path) = 2 /\ path[1] = "boards" /\ method = "DELETE"
    THEN "DELETE_BOARD"
  ELSE IF Len(path) = 3 /\ path[1] = "boards" /\ path[3] = "notes"
            /\ method = "POST"
    THEN "CREATE_NOTE"
  ELSE IF Len(path) = 4 /\ path[1] = "boards" /\ path[3] = "notes"
            /\ method = "PUT"
    THEN "UPDATE_NOTE"
  ELSE IF Len(path) = 4 /\ path[1] = "boards" /\ path[3] = "notes"
            /\ method = "DELETE"
    THEN "DELETE_NOTE"
  ELSE "FALLBACK"

(* --------------------------- SQL statements ---------------------------- *)
\* SELECT * FROM users WHERE email = ?
UsersByEmail(email) == {u \in users : u.email = email}
\* the lookup as it would run with the password test dropped
UsersByLogin_EmailOnly(email, password) == {u \in users : u.email = email}
\* SELECT * FROM users WHERE email = ? AND password = ?
UsersByLogin(email, password) ==
  {u \in users : u.email = email /\ u.password = password}
\* the INSERT as it would run on a table without the UNIQUE constraint
InsertUserOk_NoUnique(row) == TRUE
\* INSERT INTO users: email is UNIQUE
InsertUserOk(row) == \A u \in users : u.email # row.email

\* the payload of a successful register or login, as it would be with the
\* whole row sent
UserSummary_WholeRow(u) == u
\* { id, email, createdAt }: the payload of a successful register or login
UserSummary(u) == [id |-> u.id, email |-> u.email, createdAt |-> u.createdAt]

\* every enumeration of a set of rows
RECURSIVE Perms(_)
Perms(S) ==
  IF S = {} THEN {<<>>}
  ELSE UNION {{<<x>> \o p : p \in Perms(S \ {x})} : x \in S}

\* ORDER BY createdAt ASC / DESC: rows with equal keys come in any order
OrderByCreatedAtAsc(S) ==
  {p \in Perms(S) :
     \A i, j \in 1..Len(p) : i < j => p[i].createdAt <= p[j].createdAt}
OrderByCreatedAtDesc(S) ==
  {p \in Perms(S) :
     \A i, j \in 1..Len(p) : i < j => p[i].createdAt >= p[j].createdAt}

\* SELECT * FROM boards WHERE userId = ?
BoardsOfUser(userId) == {b \in boards : b.userId = userId}
\* SELECT * FROM notes WHERE boardId = ?
NotesOfBoard(boardId) == {n \in notes : n.boardId = boardId}
\* SELECT * FROM boards WHERE id = ?
BoardById(boardId) == {b \in boards : b.id = boardId}
\* the foreign key as it would run if it named users(email)
InsertBoardOk_ByEmail(row) == \E u \in users : u.email = row.userId
\* INSERT INTO boards: FOREIGN KEY(userId) REFERENCES users(id)
InsertBoardOk(row) == \E u \in users : u.id = row.userId
\* the INSERT as it would run with foreign keys left off
InsertNoteOk_NoForeignKey(row) == TRUE
\* INSERT INTO notes: FOREIGN KEY(boardId) REFERENCES boards(id)
InsertNoteOk(row) == \E b \in boards : b.id = row.boardId

\* UPDATE boards SET title = ?, updatedAt = ? WHERE id = ?
\* (title is NOT NULL: an undefined title is bound as NULL)
UpdateBoardOk(boardId, title) == BoardById(boardId) = {} \/ title # Undef
UpdateBoardRows(boardId, title, updatedAt) ==
  {IF b.id = boardId
     THEN [b EXCEPT !.title = title, !.updatedAt = updatedAt]
     ELSE b : b \in boards}

\* UPDATE boards SET updatedAt = ? WHERE id = ?
TouchBoardRows(boardId, updatedAt) ==
  {IF b.id = boardId THEN [b EXCEPT !.updatedAt = updatedAt] ELSE b :
     b \in boards}

\* DELETE FROM notes WHERE boardId = ?
DeleteNotesOfBoardRows(boardId) == {n \in notes : n.boardId # boardId}
\* DELETE FROM boards WHERE id = ?
DeleteBoardRows(boardId) == {b \in boards : b.id # boardId}
\* the same DELETE with foreign keys left off: nothing cascades
CascadeNotesRows_Off(boardId) == notes
\* ... ON DELETE CASCADE, with PRAGMA foreign_keys = ON
CascadeNotesRows(boardId) == {n \in notes : n.boardId # boardId}
\* DELETE FROM notes WHERE id = ?
DeleteNoteRows(noteId) == {n \in notes : n.id # noteId}

\* the columns object of GET /boards and the loop that fills it
EmptyColumns == [c \in Columns |-> <<>>]
PushThrows(rows) == \E i \in 1..Len(rows) : rows[i].columnName \notin Columns
RECURSIVE PushAll(_, _)
PushAll(columns, rows) ==
  IF rows = <<>> THEN columns
  ELSE LET n == Head(rows) IN
       PushAll([columns EXCEPT ![n.columnName] =
                  Append(@, [id |-> n.id, text |-> n.text,
                             createdAt |-> n.createdAt])],
               Tail(rows))

(* ------------------------------ REGISTER ------------------------------- *)
RegisterWith(bodies) ==
  /\ Admit
  /\ \E body \in bodies :
    LET req == Request("POST", <<"register">>, Undef, body) IN
    /\ Route(req.method, req.path) = "REGISTER"
    /\ UNCHANGED <<users, boards, notes, nextId, now, limit>>
    /\ IF BodyFault(body)
         THEN /\ sendJSON(req, 500, Error("Server Error"))
              /\ UNCHANGED inflight
       ELSE IF Falsy(body.email) \/ Falsy(body.password)
         THEN /\ sendJSON(req, 400, Error("email/password required"))
              /\ UNCHANGED inflight
       ELSE IF UsersByEmail(body.email) # {}
         THEN /\ sendJSON(req, 409, Error("Email already registered"))
              /\ UNCHANGED inflight
       ELSE /\ IdsLeft
            /\ Suspend([pc |-> "register_insert", req |-> req,
                        createdAt |-> formatDate])
            /\ NoSend

Register == RegisterWith(AuthBodies \cup Faults)
\* the registrations of one client, for the runs that are about boards and notes
RegisterSeed == RegisterWith({SeedBody})

RegisterInsertAt(s) ==
  LET ctx == inflight[s]
      row == [id |-> uuid(nextId), email |-> ctx.req.body.email,
              password |-> ctx.req.body.password,
              createdAt |-> ctx.createdAt]
  IN
  /\ ctx.pc = "register_insert"
  /\ Ready
  /\ nextId <= MaxIds
  /\ Finish(s)
  /\ UNCHANGED <<boards, notes, now, limit>>
  /\ IF InsertUserOk(row)
       THEN /\ users' = users \cup {row}
            /\ nextId' = nextId + 1
            /\ sendJSON(ctx.req, 200, UserSummary(row))
       ELSE /\ UNCHANGED <<users, nextId>>
            /\ sendJSON(ctx.req, 500, Error("Server Error"))

RegisterInsert == \E s \in 1..MaxInFlight : RegisterInsertAt(s)

(* -------------------------------- LOGIN -------------------------------- *)
LoginWith(bodies) ==
  /\ Admit
  /\ \E body \in bodies :
    LET req == Request("POST", <<"login">>, Undef, body) IN
    /\ Route(req.method, req.path) = "LOGIN"
    /\ UNCHANGED <<users, boards, notes, nextId, now, inflight, limit>>
    /\ IF BodyFault(body)
         THEN sendJSON(req, 500, Error("Server Error"))
       ELSE IF Falsy(body.email) \/ Falsy(body.password)
         THEN sendJSON(req, 400, Error("email/password required"))
       ELSE IF UsersByLogin(body.email, body.password) = {}
         THEN sendJSON(req, 401, Error("Invalid email or password"))
       ELSE \E user \in UsersByLogin(body.email, body.password) :
              sendJSON(req, 200, UserSummary(user))

Login == LoginWith(AuthBodies \cup Faults)
\* the logins of one client: the password it registered with, and another
LoginSeed == LoginWith({SeedBody, [SeedBody EXCEPT !.password = "q"]})

(* ------------------------------ GET BOARDS ----------------------------- *)
GetBoards ==
  /\ Admit
  /\ \E q \in KnownIds \cup {Undef} :
    LET req == Request("GET", <<"boards">>, q, EmptyObject) IN
    /\ Route(req.method, req.path) = "GET_BOARDS"
    /\ UNCHANGED <<users, boards, notes, nextId, now, limit>>
    /\ IF Falsy(q)
         THEN /\ sendJSON(req, 400, Error("userId required"))
              /\ UNCHANGED inflight
       ELSE \E rows \in OrderByCreatedAtDesc(BoardsOfUser(q)) :
              IF rows = <<>>
                THEN /\ sendJSON(req, 200, [results |-> <<>>])
                     /\ UNCHANGED inflight
              ELSE /\ Suspend([pc |-> "get_boards_notes", req |-> req,
                               todo |-> rows, results |-> <<>>])
                   /\ NoSend

GetBoardsNotesAt(s) ==
  LET ctx == inflight[s] IN
  /\ ctx.pc = "get_boards_notes"
  /\ Ready
  /\ UNCHANGED <<users, boards, notes, nextId, now, limit>>
  /\ LET b == Head(ctx.todo) IN
     \E rows \in OrderByCreatedAtAsc(NotesOfBoard(b.id)) :
       IF PushThrows(rows)
         THEN /\ sendJSON(ctx.req, 500, Error("Server Error"))
              /\ Finish(s)
       ELSE LET results ==
                  Append(ctx.results,
                         [id |-> b.id, userId |-> b.userId,
                          title |-> b.title, createdAt |-> b.createdAt,
                          updatedAt |-> b.updatedAt,
                          columns |-> PushAll(EmptyColumns, rows)])
            IN
            IF Tail(ctx.todo) = <<>>
              THEN /\ sendJSON(ctx.req, 200, [results |-> results])
                   /\ Finish(s)
            ELSE /\ Resume(s, [ctx EXCEPT !.todo = Tail(ctx.todo),
                                          !.results = results])
                 /\ NoSend

GetBoardsNotes == \E s \in 1..MaxInFlight : GetBoardsNotesAt(s)

(* ----------------------------- CREATE BOARD ---------------------------- *)
CreateBoardWith(bodies) ==
  /\ Admit
  /\ \E body \in bodies :
    LET req == Request("POST", <<"boards">>, Undef, body)
        row == [id |-> uuid(nextId), userId |-> body.userId,
                title |-> body.title, createdAt |-> formatDate,
                updatedAt |-> formatDate]
    IN
    /\ Route(req.method, req.path) = "CREATE_BOARD"
    /\ UNCHANGED <<users, notes, now, inflight, limit>>
    /\ IF BodyFault(body)
         THEN /\ sendJSON(req, 500, Error("Server Error"))
              /\ UNCHANGED <<boards, nextId>>
       ELSE IF Falsy(body.userId) \/ Falsy(body.title)
         THEN /\ sendJSON(req, 400, Error("userId and title required"))
              /\ UNCHANGED <<boards, nextId>>
       ELSE /\ IdsLeft
            /\ IF InsertBoardOk(row)
                 THEN /\ boards' = boards \cup {row}
                      /\ nextId' = nextId + 1
                      /\ sendJSON(req, 200,
                                  [id |-> row.id, userId |-> row.userId,
                                   title |-> row.title,
                                   createdAt |-> row.createdAt,
                                   updatedAt |-> row.createdAt,
                                   columns |-> EmptyColumns])
                 ELSE /\ UNCHANGED <<boards, nextId>>
                      /\ sendJSON(req, 500, Error("Server Error"))

CreateBoard == CreateBoardWith(BoardBodies(KnownIds) \cup Faults)
\* the boards of one client: for the first id handed out, with or without
\* the fields, or with a body that is no JSON
CreateBoardSeed == CreateBoardWith(BoardBodies({uuid(1)}) \cup {BadBody})

(* ----------------------------- UPDATE BOARD ---------------------------- *)
UpdateBoard ==
  /\ Admit
  /\ \E path \in Paths(KnownIds) : \E body \in PutBodies(path) :
    LET req == Request("PUT", path, Undef, body)
        boardId == path[2]
    IN
    /\ Route(req.method, req.path) = "UPDATE_BOARD"
    /\ UNCHANGED <<users, notes, nextId, now, limit>>
    /\ IF BodyFault(body) \/ ~UpdateBoardOk(boardId, body.title)
         THEN /\ sendJSON(req, 500, Error("Server Error"))
              /\ UNCHANGED <<boards, inflight>>
       ELSE /\ boards' = UpdateBoardRows(boardId, body.title, formatDate)
            /\ Suspend([pc |-> "update_board_select", req |-> req,
                        boardId |-> boardId])
            /\ NoSend

UpdateBoardSelect ==
  \E s \in 1..MaxInFlight :
    LET ctx == inflight[s] IN
    /\ ctx.pc = "update_board_select"
    /\ Ready
    /\ UNCHANGED <<users, boards, notes, nextId, now, limit>>
    /\ Finish(s)
    /\ IF BoardById(ctx.boardId) = {}
         THEN sendJSON(ctx.req, 200, [undefined |-> TRUE])
       ELSE \E b \in BoardById(ctx.boardId) : sendJSON(ctx.req, 200, b)

(* ----------------------------- DELETE BOARD ---------------------------- *)
DeleteBoard ==
  /\ Admit
  /\ \E path \in Paths(KnownIds) :
    LET req == Request("DELETE", path, Undef, EmptyObject)
        boardId == path[2]
    IN
    /\ Route(req.method, req.path) = "DELETE_BOARD"
    /\ notes' = DeleteNotesOfBoardRows(boardId)
    /\ Suspend([pc |-> "delete_board_board", req |-> req,
                boardId |-> boardId])
    /\ UNCHANGED <<users, boards, nextId, now, limit>>
    /\ NoSend

DeleteBoardBoard ==
  \E s \in 1..MaxInFlight :
    LET ctx == inflight[s] IN
    /\ ctx.pc = "delete_board_board"
    /\ Ready
    /\ boards' = DeleteBoardRows(ctx.boardId)
    /\ notes' = CascadeNotesRows(ctx.boardId)
    /\ Finish(s)
    /\ sendJSON(ctx.req, 200, [ok |-> TRUE])
    /\ UNCHANGED <<users, nextId, now, limit>>

(* ----------------------------- CREATE NOTE ----------------------------- *)
CreateNoteWith(bodies) ==
  /\ Admit
  /\ \E path \in Paths(KnownIds), body \in bodies :
    LET req == Request("POST", path, Undef, body)
        boardId == path[2]
        row == [id |-> uuid(nextId), boardId |-> boardId,
                columnName |-> body.columnName, text |-> body.text,
                createdAt |-> formatDate]
    IN
    /\ Route(req.method, req.path) = "CREATE_NOTE"
    /\ UNCHANGED <<users, boards, now, limit>>
    /\ IF BodyFault(body)
         THEN /\ sendJSON(req, 500, Error("Server Error"))
              /\ UNCHANGED <<notes, nextId, inflight>>
       ELSE IF Falsy(boardId) \/ Falsy(body.columnName) \/ Falsy(body.text)
         THEN /\ sendJSON(req, 400,
                          Error("boardId, columnName and text required"))
              /\ UNCHANGED <<notes, nextId, inflight>>
       ELSE /\ IdsLeft
            /\ IF InsertNoteOk(row)
                 THEN /\ notes' = notes \cup {row}
                      /\ nextId' = nextId + 1
                      /\ Suspend([pc |-> "create_note_touch", req |-> req,
                                  note |-> row, updatedAt |-> formatDate])
                      /\ NoSend
                 ELSE /\ UNCHANGED <<notes, nextId, inflight>>
                      /\ sendJSON(req, 500, Error("Server Error"))

CreateNote == CreateNoteWith(NoteBodies \cup Faults)
\* the notes of one client: one of an unknown column, one that is no JSON
CreateNoteSeed ==
  CreateNoteWith({[EmptyObject EXCEPT !.columnName = "Foo", !.text = "t"],
                  BadBody})

CreateNoteTouchAt(s) ==
  LET ctx == inflight[s] IN
  /\ ctx.pc = "create_note_touch"
  /\ Ready
  /\ boards' = TouchBoardRows(ctx.note.boardId, ctx.updatedAt)
  /\ Finish(s)
  /\ sendJSON(ctx.req, 200, ctx.note)
  /\ UNCHANGED <<users, notes, nextId, now, limit>>

CreateNoteTouch == \E s \in 1..MaxInFlight : CreateNoteTouchAt(s)

(* ----------------------------- DELETE NOTE ----------------------------- *)
DeleteNote ==
  /\ Admit
  /\ \E path \in Paths(KnownIds) :
    LET req == Request("DELETE", path, Undef, EmptyObject)
        boardId == path[2]
        noteId == path[4]
    IN
    /\ Route(req.method, req.path) = "DELETE_NOTE"
    /\ notes' = DeleteNoteRows(noteId)
    /\ Suspend([pc |-> "delete_note_touch", req |-> req,
                boardId |-> boardId, updatedAt |-> formatDate])
    /\ UNCHANGED <<users, boards, nextId, now, limit>>
    /\ NoSend

DeleteNoteTouch ==
  \E s \in 1..MaxInFlight :
    LET ctx == inflight[s] IN
    /\ ctx.pc = "delete_note_touch"
    /\ Ready
    /\ boards' = TouchBoardRows(ctx.boardId, ctx.updatedAt)
    /\ Finish(s)
    /\ sendJSON(ctx.req, 200, [ok |-> TRUE])
    /\ UNCHANGED <<users, notes, nextId, now, limit>>

(* --------------------- CORS preflight and fallback --------------------- *)
Options ==
  /\ Admit
  /\ \E path \in {<<"register">>, <<"boards">>, <<"other">>} :
    LET req == Request("OPTIONS", path, Undef, EmptyObject) IN
    /\ Route(req.method, req.path) = "OPTIONS"
    /\ resp' = [req |-> req, status |-> 204, body |-> [none |-> TRUE]]
    /\ UNCHANGED <<users, boards, notes, nextId, now, inflight, limit>>

FallbackOn(paths) ==
  /\ Admit
  /\ \E method \in Methods, path \in paths :
    LET req == Request(method, path, Undef, EmptyObject) IN
    /\ Route(req.method, req.path) = "FALLBACK"
    /\ sendJSON(req, 404, Error("Not Found"))
    /\ UNCHANGED <<users, boards, notes, nextId, now, inflight, limit>>

Fallback == FallbackOn(Paths(KnownIds))
\* the unmatched requests of one client
FallbackSeed == FallbackOn({<<"other">>})

(* --------------------------- receiving a body -------------------------- *)
\* The handlers above take a request once its body is complete.  Here the
\* body of a POST /register arrives chunk by chunk, as parseJSONBody reads it.

\* the request arrives; the handler calls parseJSONBody and awaits its promise
BodyBegin ==
  /\ Admit
  /\ IdsLeft
  /\ \E body \in {SeedBody, BadBody}, size \in 1..(MaxRaw + 1) :
    LET req == Request("POST", <<"register">>, Undef, body) IN
    /\ Route(req.method, req.path) = "REGISTER"
    /\ Suspend([pc |-> "parse_body", req |-> req, raw |-> 0, size |-> size])
    /\ NoSend
    /\ UNCHANGED <<users, boards, notes, nextId, now, limit>>

\* req.on("data"): the chunk is appended; past the limit the connection is
\* destroyed, after which the request emits neither "data" nor "end" and
\* nothing settles the promise
BodyDataAt(s) ==
  LET ctx == inflight[s] IN
  /\ ctx.pc = "parse_body"
  /\ Ready
  /\ ctx.raw < ctx.size
  /\ IF ctx.raw + 1 > MaxRaw
       THEN Resume(s, [pc |-> "body_destroyed", req |-> ctx.req])
       ELSE Resume(s, [ctx EXCEPT !.raw = ctx.raw + 1])
  /\ NoSend
  /\ UNCHANGED <<users, boards, notes, nextId, now, limit>>

BodyData == \E s \in 1..MaxInFlight : BodyDataAt(s)

\* req.on("end"): the text is parsed, the promise settles and the REGISTER
\* handler runs up to its INSERT
BodyEndAt(s) ==
  LET ctx == inflight[s]
      req == ctx.req
      body == req.body
  IN
  /\ ctx.pc = "parse_body"
  /\ Ready
  /\ ctx.raw = ctx.size
  /\ UNCHANGED <<users, boards, notes, nextId, now, limit>>
  /\ IF BodyFault(body)
       THEN /\ sendJSON(req, 500, Error("Server Error"))
            /\ Finish(s)
     ELSE IF Falsy(body.email) \/ Falsy(body.password)
       THEN /\ sendJSON(req, 400, Error("email/password required"))
            /\ Finish(s)
     ELSE IF UsersByEmail(body.email) # {}
       THEN /\ sendJSON(req, 409, Error("Email already registered"))
            /\ Finish(s)
     ELSE /\ Resume(s, [pc |-> "register_insert", req |-> req,
                        createdAt |-> formatDate])
          /\ NoSend

BodyEnd == \E s \in 1..MaxInFlight : BodyEndAt(s)

(* -------------------------- a statement fails -------------------------- *)
\* table notes after a rejected statement, as it would be if the handler's
\* statements ran in one transaction that the rejection rolls back
NotesAfterReject_RolledBack(ctx) ==
  IF ctx.pc = "create_note_touch" THEN notes \ {ctx.note} ELSE notes
\* table notes after a rejected statement: what the handler's earlier
\* statements have written stays, every run() commits on its own
NotesAfterReject(ctx) == notes

\* the statement a handler awaits is rejected by the store (`if (err) return
\* reject(err)`): the await throws into the catch block
StatementFailsAt(s) ==
  LET ctx == inflight[s] IN
  /\ ctx.pc \notin {"idle", "parse_body", "body_destroyed"}
  /\ Ready
  /\ notes' = NotesAfterReject(ctx)
  /\ Finish(s)
  /\ sendJSON(ctx.req, 500, Error("Server Error"))
  /\ UNCHANGED <<users, boards, nextId, now, limit>>

StatementFails == \E s \in 1..MaxInFlight : StatementFailsAt(s)

(* ------------------------- the response leaves ------------------------- *)
\* res.end(): the response is written out; nothing of the server changes
Flush ==
  /\ resp # NoResponse
  /\ resp' = NoResponse
  /\ UNCHANGED <<users, boards, notes, nextId, now, inflight, limit>>

(* -------------------------------- clock -------------------------------- *)
Tick ==
  /\ Ready
  /\ now < MaxTime
  /\ now' = now + 1
  /\ NoSend
  /\ UNCHANGED <<users, boards, notes, nextId, inflight, limit>>

Next ==
  \/ Register
  \/ RegisterInsert
  \/ Login
  \/ GetBoards
  \/ GetBoardsNotes
  \/ CreateBoard
  \/ UpdateBoard
  \/ UpdateBoardSelect
  \/ DeleteBoard
  \/ DeleteBoardBoard
  \/ CreateNote
  \/ CreateNoteTouch
  \/ DeleteNote
  \/ DeleteNoteTouch
  \/ Options
  \/ Fallback
  \/ Flush
  \/ Tick

\* every handler, any interleaving of their statements
Spec == Init /\ [][Next]_vars
\* every handler, behind clients that wait for each response
SpecSeq == InitSeq /\ [][Next]_vars

\* registration and login, interleaved
NextAuth ==
  \/ Register
  \/ RegisterInsert
  \/ Login
  \/ Flush
  \/ Tick
SpecAuth == Init /\ [][NextAuth]_vars

\* creation and deletion of boards against creation of notes, interleaved,
\* within one second of the clock (no statement of these handlers reads a
\* timestamp back)
NextDelete ==
  \/ RegisterSeed
  \/ RegisterInsert
  \/ CreateBoard
  \/ CreateNote
  \/ CreateNoteTouch
  \/ DeleteBoard
  \/ DeleteBoardBoard
  \/ Flush
SpecDelete == Init /\ [][NextDelete]_vars

\* registration and login against creation and deletion of boards,
\* interleaved, within one second of the clock
NextUsers ==
  \/ Register
  \/ RegisterInsert
  \/ Login
  \/ CreateBoard
  \/ DeleteBoard
  \/ DeleteBoardBoard
  \/ Flush
SpecUsers == Init /\ [][NextUsers]_vars

\* boards and notes behind clients that wait for each response, on a store
\* that may reject a statement
NextFault ==
  \/ RegisterSeed
  \/ RegisterInsert
  \/ CreateBoard
  \/ DeleteBoard
  \/ DeleteBoardBoard
  \/ CreateNote
  \/ CreateNoteTouch
  \/ DeleteNote
  \/ DeleteNoteTouch
  \/ StatementFails
  \/ Flush
  \/ Tick
SpecFault == InitSeq /\ [][NextFault]_vars

\* registrations whose bodies arrive in chunks.  The client goes on sending
\* what it has begun to send, the store answers every statement, every
\* response leaves.
NextBody ==
  \/ BodyBegin
  \/ BodyData
  \/ BodyEnd
  \/ RegisterInsert
  \/ Flush
SpecBody ==
  /\ Init
  /\ [][NextBody]_vars
  /\ \A s \in 1..MaxInFlight :
       /\ SF_vars(BodyDataAt(s))
       /\ SF_vars(BodyEndAt(s))
       /\ SF_vars(RegisterInsertAt(s))
  /\ WF_vars(Flush)

\* a step that resumes the handler suspended in slot s: the store has
\* answered the statement it awaits, with a result or with an error
Resumes(s) ==
  /\ inflight[s] # Idle
  /\ \/ RegisterInsertAt(s)
     \/ GetBoardsNotesAt(s)
     \/ CreateNoteTouchAt(s)
     \/ StatementFailsAt(s)

\* registration, boards, notes and listings, interleaved, on a store that may
\* reject a statement.  The callback of every statement is run in the end
\* (the event loop serves its queue in order) and every response leaves.
NextLive ==
  \/ RegisterSeed
  \/ RegisterInsert
  \/ LoginSeed
  \/ GetBoards
  \/ GetBoardsNotes
  \/ CreateBoardSeed
  \/ CreateNoteSeed
  \/ CreateNoteTouch
  \/ Options
  \/ FallbackSeed
  \/ StatementFails
  \/ Flush
SpecLive ==
  /\ Init
  /\ [][NextLive]_vars
  /\ \A s \in 1..MaxInFlight : SF_vars(Resumes(s))
  /\ WF_vars(Flush)

(* ============================== properties ============================= *)
IsRegister(r) == r.req.method = "POST" /\ r.req.path = <<"register">>
IsLogin(r) == r.req.method = "POST" /\ r.req.path = <<"login">>
\* a well-formed body with a non-empty email and a non-empty password
HasCredentials(r) ==
  /\ r.req.body.kind = "obj"
  /\ ~Falsy(r.req.body.email)
  /\ ~Falsy(r.req.body.password)

\* C1: every POST /register with an email and a non-empty password is
\* answered 200 or 409, also when its existence check ran before the insert
\* of another registration of the same email; 200 goes with the stored user,
\* 409 with an email that is already stored.
C1_RegisterAnswers200Or409 ==
  (IsRegister(resp) /\ HasCredentials(resp)) =>
    /\ resp.status \in {200, 409}
    /\ \E u \in users : u.email = resp.req.body.email

\* C2: no two stored users have the same email.
C2_UniqueEmail ==
  \A u, v \in users : u.email = v.email => u = v

\* a second registration of a stored email got past the existence check and
\* was stopped at its insert
C2_Witness ==
  /\ IsRegister(resp)
  /\ resp.status = 500
  /\ HasCredentials(resp)
  /\ \E u \in users : u.email = resp.req.body.email

\* C3: a registration answered 200 with id i has stored (i, email, password);
\* stored users stay; a login with a stored email is answered 200 with that
\* user's id when the password is the stored one and 401 when it is another
\* non-empty one; a login changes no table.
C3_LoginAfterRegister ==
  [][/\ (IsRegister(resp') /\ resp'.status = 200) =>
          (\E u \in users' :
             /\ u.id = resp'.body.id
             /\ u.email = resp'.req.body.email
             /\ u.password = resp'.req.body.password)
     /\ users \subseteq users'
     /\ IsLogin(resp') =>
          (/\ UNCHANGED <<users, boards, notes>>
           /\ \A u \in users :
                (HasCredentials(resp') /\ u.email = resp'.req.body.email) =>
                  IF u.password = resp'.req.body.password
                    THEN resp'.status = 200 /\ resp'.body.id = u.id
                    ELSE resp'.status = 401)]_vars

\* a login with the registered email and password was answered with the id
C3_Witness ==
  /\ IsLogin(resp)
  /\ resp.status = 200
  /\ \E u \in users :
       /\ u.id = resp.body.id
       /\ u.email = resp.req.body.email
       /\ u.password = resp.req.body.password

Handler(r) == Route(r.req.method, r.req.path)
\* the entries of one column of a listed board that carry the note id
Listed(columns, c, noteId) ==
  {k \in 1..Len(columns[c]) : columns[c][k].id = noteId}

\* C4: after PUT /boards/:id/notes/:noteId with columnName c (Start, Stop or
\* Continue) for a stored note of board :id has been answered, a listing of
\* the board shows the note under c and under no other column.
C4_PutNoteMovesNote ==
  \A n \in notes :
    (/\ resp.req.method = "PUT"
     /\ resp.req.path = <<"boards", n.boardId, "notes", n.id>>
     /\ resp.req.body.kind = "obj"
     /\ resp.req.body.columnName \in Columns) =>
      \A rows \in OrderByCreatedAtAsc(NotesOfBoard(n.boardId)) :
        ~PushThrows(rows) =>
          \A c \in Columns :
            (Listed(PushAll(EmptyColumns, rows), c, n.id) # {})
              <=> (c = resp.req.body.columnName)

\* C5: a POST or PUT whose body is not well-formed JSON is answered 400 with
\* an error field and changes no table.
C5_MalformedJsonIs400 ==
  [][(resp'.req.method \in {"POST", "PUT"} /\ resp'.req.body.kind = "bad") =>
       (/\ resp'.status = 400
        /\ "error" \in DOMAIN resp'.body
        /\ UNCHANGED <<users, boards, notes>>)]_vars

\* C6: when DELETE /boards/:id is answered 200 the board is gone and no note
\* has its boardId, whatever was interleaved with the handler's two deletes;
\* and an id that names no board and no note's board never names one again.
C6_DeletedBoardKeepsNoNotes ==
  [][/\ (Handler(resp') = "DELETE_BOARD" /\ resp'.status = 200) =>
          (/\ \A b \in boards' : b.id # resp'.req.path[2]
           /\ \A n \in notes' : n.boardId # resp'.req.path[2])
     /\ \A id \in KnownIds :
          (/\ \A b \in boards : b.id # id
           /\ \A n \in notes : n.boardId # id) =>
            (/\ \A b \in boards' : b.id # id
             /\ \A n \in notes' : n.boardId # id)]_vars

\* the DELETE was answered while a POST /boards/:id/notes for the same board
\* had inserted its note and not yet finished
C6_Witness ==
  /\ Handler(resp) = "DELETE_BOARD"
  /\ resp.status = 200
  /\ \E s \in 1..MaxInFlight :
       /\ inflight[s].pc = "create_note_touch"
       /\ inflight[s].note.boardId = resp.req.path[2]

\* C7: GET /boards?userId=u is answered 200 with exactly the stored boards
\* of u, every stored note of each once, in the column its columnName names,
\* each column in ascending creation order.
C7_ListingIsTheStore ==
  (/\ resp.req.method = "GET"
   /\ resp.req.path = <<"boards">>
   /\ ~Falsy(resp.req.query)) =>
    /\ resp.status = 200
    /\ LET rs == resp.body.results
           mine == BoardsOfUser(resp.req.query)
       IN
       /\ Len(rs) = Cardinality(mine)
       /\ Cardinality({rs[i].id : i \in 1..Len(rs)}) = Len(rs)
       /\ \A i \in 1..Len(rs) :
            /\ \E b \in mine :
                 /\ b.id = rs[i].id
                 /\ b.userId = rs[i].userId
                 /\ b.title = rs[i].title
                 /\ b.createdAt = rs[i].createdAt
                 /\ b.updatedAt = rs[i].updatedAt
            /\ \A n \in NotesOfBoard(rs[i].id) : \A c \in Columns :
                 Cardinality(Listed(rs[i].columns, c, n.id))
                   = IF c = n.columnName THEN 1 ELSE 0
            /\ \A c \in Columns : \A k \in 1..Len(rs[i].columns[c]) :
                 /\ \E n \in NotesOfBoard(rs[i].id) :
                      /\ n.id = rs[i].columns[c][k].id
                      /\ n.text = rs[i].columns[c][k].text
                      /\ n.createdAt = rs[i].columns[c][k].createdAt
                 /\ \A l \in 1..Len(rs[i].columns[c]) :
                      k < l => rs[i].columns[c][k].createdAt
                                 <= rs[i].columns[c][l].createdAt

\* C8: once POST /boards/:id/notes with columnName and text is answered 200,
\* a GET /boards of the board's owner is answered 200 and shows the note,
\* with its text, under the columnName that was sent.
C8_CreatedNoteIsListed ==
  (Handler(resp) = "CREATE_NOTE" /\ resp.status = 200) =>
    \A b \in BoardById(resp.body.boardId) :
      \A rows \in OrderByCreatedAtAsc(NotesOfBoard(b.id)) :
        /\ ~PushThrows(rows)
        /\ \E k \in Listed(PushAll(EmptyColumns, rows),
                            resp.req.body.columnName, resp.body.id) :
             PushAll(EmptyColumns, rows)[resp.req.body.columnName][k].text
               = resp.req.body.text

\* a POST /boards with a well-formed body, a userId and a title
HasBoardFields(r) ==
  /\ Handler(r) = "CREATE_BOARD"
  /\ r.req.body.kind = "obj"
  /\ ~Falsy(r.req.body.userId)
  /\ ~Falsy(r.req.body.title)
\* the answer is the new board, with empty columns, and the board is stored
CreatedBoard(r) ==
  /\ r.status = 200
  /\ r.body.userId = r.req.body.userId
  /\ r.body.columns = [c \in {"Start", "Stop", "Continue"} |-> <<>>]
  /\ \E b \in boards :
       /\ b.id = r.body.id
       /\ b.userId = r.req.body.userId
       /\ b.title = r.req.body.title

\* C9 as stated: a userId and a title are all a POST /boards needs to be
\* answered 200 with the new board and to store it.
C9_CreateBoardNeedsOnlyFields ==
  HasBoardFields(resp) => CreatedBoard(resp)

\* C9: a POST /boards with a title and the id of a stored user is answered
\* 200 with a board of that userId and with empty columns, and the board is
\* stored.
C9_CreateBoardForStoredUser ==
  (HasBoardFields(resp) /\ \E u \in users : u.id = resp.req.body.userId) =>
    CreatedBoard(resp)

\* a board was created for the registered user
C9_Witness ==
  /\ HasBoardFields(resp)
  /\ \E u \in users : u.id = resp.req.body.userId
  /\ resp.status = 200
  /\ \E b \in boards : b.id = resp.body.id

\* C10: the columnName of every stored note is Start, Stop or Continue.
C10_ColumnNameIsFixed ==
  \A n \in notes : n.columnName \in Columns

\* C11: the userId of every stored board is the id of a stored user and the
\* boardId of every stored note is the id of a stored board.
C11_ReferencesAreStored ==
  /\ \A b \in boards : \E u \in users : u.id = b.userId
  /\ \A n \in notes : \E b \in boards : b.id = n.boardId

\* a note is stored for a board whose DELETE is between its two statements
C11_Witness ==
  \E s \in 1..MaxInFlight : \E n \in notes :
    /\ inflight[s].pc = "delete_board_board"
    /\ n.boardId = inflight[s].boardId
    /\ \E b \in boards : b.id = n.boardId /\ \E u \in users : u.id = b.userId

\* a request of the board and note routes that is complete (a well-formed
\* body with the fields its route requires) and names, as :id or as :noteId,
\* the id that no row ever has
NamesUnknownId(r) ==
  /\ Len(r.req.path) >= 2
  /\ r.req.path[1] = "boards"
  /\ r.req.method \in {"PUT", "DELETE", "POST"}
  /\ Handler(r) # "FALLBACK"
  /\ r.req.body.kind = "obj"
  /\ (r.req.method = "POST") =>
       (~Falsy(r.req.body.columnName) /\ ~Falsy(r.req.body.text))
  /\ (r.req.method = "PUT" /\ Len(r.req.path) = 2) => ~Falsy(r.req.body.title)
  /\ \/ r.req.path[2] = UnknownId
     \/ Len(r.req.path) = 4 /\ r.req.path[4] = UnknownId

\* C12: PUT or DELETE /boards/:id, POST /boards/:id/notes and PUT or DELETE
\* /boards/:id/notes/:noteId with an id that is not stored are answered 404,
\* and the step that answers changes no table.
C12_UnknownIdIs404 ==
  [][NamesUnknownId(resp') =>
       (/\ resp'.status = 404
        /\ UNCHANGED <<users, boards, notes>>)]_vars

\* a request with a well-formed body (an object, the empty body, [] or null)
\* that lacks a field its route requires, or a GET /boards without userId
LacksRequired(r) ==
  \/ /\ Handler(r) \in {"REGISTER", "LOGIN"}
     /\ r.req.body.kind # "bad"
     /\ Falsy(r.req.body.email) \/ Falsy(r.req.body.password)
  \/ /\ Handler(r) = "CREATE_BOARD"
     /\ r.req.body.kind # "bad"
     /\ Falsy(r.req.body.userId) \/ Falsy(r.req.body.title)
  \/ /\ Handler(r) = "CREATE_NOTE"
     /\ r.req.body.kind # "bad"
     /\ Falsy(r.req.body.columnName) \/ Falsy(r.req.body.text)
  \/ /\ Handler(r) = "GET_BOARDS"
     /\ Falsy(r.req.query)

\* C13: POST /register, /login, /boards and /boards/:id/notes with a
\* well-formed body of any kind in which a required field is missing or
\* empty, and GET /boards without userId, are answered 400 and change no table.
C13_MissingFieldIs400 ==
  [][LacksRequired(resp') =>
       (/\ resp'.status = 400
        /\ UNCHANGED <<users, boards, notes>>)]_vars

\* the step has taken a new request into slot s
Admitted(s) == inflight[s] = Idle /\ inflight'[s] # Idle
\* the step has ended the handler of slot s
Ended(s) == inflight[s] # Idle /\ inflight'[s] = Idle
\* the step leaves every board but `id` as it was and does not set the
\* updatedAt of `id` back
Touches(id) ==
  /\ \A b \in boards : b.id # id => b \in boards'
  /\ \A b \in boards : b.id = id =>
       \E c \in boards' : c.id = id /\ c.updatedAt >= b.updatedAt
  /\ \A c \in boards' : \E b \in boards : b.id = c.id

\* C14: a POST, PUT or DELETE of a note that is answered 200 advances the
\* updatedAt of the board the note is stored under and of no other board: the
\* board a PUT or DELETE handler goes on to update is the one of the stored
\* note it names, and the step that answers a POST or DELETE with 200 updates
\* that board alone.
C14_NoteWriteTouchesItsBoard ==
  [][/\ \A s \in 1..MaxInFlight :
          (/\ Admitted(s)
           /\ inflight'[s].req.method \in {"PUT", "DELETE"}
           /\ Len(inflight'[s].req.path) = 4) =>
            \A n \in notes :
              n.id = inflight'[s].req.path[4] =>
                inflight'[s].boardId = n.boardId
     /\ (Handler(resp') = "CREATE_NOTE" /\ resp'.status = 200) =>
          Touches(resp'.body.boardId)
     /\ (Handler(resp') = "DELETE_NOTE" /\ resp'.status = 200) =>
          \A s \in 1..MaxInFlight : Ended(s) => Touches(inflight[s].boardId)
    ]_vars

\* C15: the stored users only grow: a POST /register answered 200 adds
\* exactly one user, no other step adds, changes or removes a user, and no
\* payload of a register or login answered 200 has a password field.
C15_UsersOnlyGrow ==
  [][/\ users \subseteq users'
     /\ IF IsRegister(resp') /\ resp'.status = 200
          THEN /\ Cardinality(users' \ users) = 1
               /\ \A u \in users' \ users : u.id = resp'.body.id
          ELSE users' = users
     /\ ((IsRegister(resp') \/ IsLogin(resp')) /\ resp'.status = 200) =>
          "password" \notin DOMAIN resp'.body]_vars

\* a second user was registered after the first had created a board
C15_Witness ==
  /\ IsRegister(resp)
  /\ resp.status = 200
  /\ Cardinality(users) = 2
  /\ \E b \in boards : \E u \in users : u.id = b.userId /\ u.id # resp.body.id

\* the endpoint table: the row a method and a path match, the preflight
\* answered before it, and no row otherwise
Row(method, path) ==
  IF method = "OPTIONS" THEN "OPTIONS"
  ELSE IF method = "POST" /\ path = <<"register">> THEN "REGISTER"
  ELSE IF method = "POST" /\ path = <<"login">> THEN "LOGIN"
  ELSE IF method = "GET" /\ path = <<"boards">> THEN "GET_BOARDS"
  ELSE IF method = "POST" /\ path = <<"boards">> THEN "CREATE_BOARD"
  ELSE IF path \in BoardPaths(KnownIds)
    THEN CASE method = "PUT" -> "UPDATE_BOARD"
           [] method = "DELETE" -> "DELETE_BOARD"
           [] OTHER -> "FALLBACK"
  ELSE IF path \in NotesPaths(KnownIds)
    THEN IF method = "POST" THEN "CREATE_NOTE" ELSE "FALLBACK"
  ELSE IF path \in NotePaths(KnownIds)
    THEN CASE method = "PUT" -> "UPDATE_NOTE"
           [] method = "DELETE" -> "DELETE_NOTE"
           [] OTHER -> "FALLBACK"
  ELSE "FALLBACK"

\* C16: every answered request was handled by the row of the endpoint table
\* that its method and path match (PUT /boards/:id/notes/:noteId by the note
\* update, PUT /boards/:id by the board update), and a request that matches
\* no row is answered 404.
C16_DispatchFollowsTable ==
  (resp # NoResponse) =>
    /\ Handler(resp) = Row(resp.req.method, resp.req.path)
    /\ (Row(resp.req.method, resp.req.path) = "FALLBACK") => resp.status = 404

\* the handlers that are suspended on the second of their two statements
SecondStatement ==
  {"delete_board_board", "create_note_touch", "delete_note_touch"}

C18_OversizedBodyFinishes ==
  \A s \in 1..MaxInFlight :
    (inflight[s].pc = "body_destroyed") ~> (inflight[s] = Idle)

Statuses == {200, 204, 400, 401, 404, 409, 500}

\* C19: every request ends with exactly one response, whose status is 200,
\* 204 (OPTIONS, and only OPTIONS), 400, 401, 404, 409 or 500: a step that
\* sends a response ends the handler it answers and no other, a step that
\* sends none ends no handler; and every suspended handler is answered in the
\* end, whatever faults the other requests run into.
C19_EveryRequestIsAnswered ==
  /\ [](resp # NoResponse =>
          /\ resp.status \in Statuses
          /\ (resp.status = 204) <=> (resp.req.method = "OPTIONS"))
  /\ [][/\ \A s \in 1..MaxInFlight :
             /\ Ended(s) => resp'.req = inflight[s].req
             /\ (/\ inflight[s] # Idle
                 /\ inflight'[s] # Idle
                 /\ resp' # NoResponse) => inflight'[s] = inflight[s]
        /\ (resp' # NoResponse) =>
             Cardinality({s \in 1..MaxInFlight : Ended(s)}) <= 1
        /\ (resp' = NoResponse) => \A s \in 1..MaxInFlight : ~Ended(s)]_vars
  /\ \A s \in 1..MaxInFlight : (inflight[s] # Idle) ~> (inflight[s] = Idle)

\* a listing was answered 500 over a stored note of an unknown column while
\* another handler was suspended
C19_Witness ==
  /\ Handler(resp) = "GET_BOARDS"
  /\ resp.status = 500
  /\ \E n \in notes : n.columnName \notin Columns
  /\ \E s \in 1..MaxInFlight : inflight[s] # Idle

\* C20: a PUT or DELETE of /boards/:id/notes/:noteId whose :noteId names a
\* stored note of another board than :id leaves that note as it is, and
\* leaves every board but the note's own as it is.
C20_NoteOfAnotherBoardIsKept ==
  [][\A s \in 1..MaxInFlight :
       (/\ Admitted(s)
        /\ inflight'[s].req.method \in {"PUT", "DELETE"}
        /\ Len(inflight'[s].req.path) = 4) =>
         \A n \in notes :
           (/\ n.id = inflight'[s].req.path[4]
            /\ n.boardId # inflight'[s].req.path[2]) =>
             /\ n \in notes'
             /\ \A b \in boards : b.id # n.boardId => b \in boards']_vars
====
